---- MODULE Spec2Model ----
(***************************************************************************)
(* Model of the lite-llm-adapter chat-completion service:                  *)
(*   - the model registry and on-demand loader  (models/model_loader.py)   *)
(*   - the Redis slot queue "llm_processing_slots" (main.py, routers/chat) *)
(*   - the Redis session store "session:<id>"      (routers/chat.py)       *)
(*   - the request handler create_chat_completion and its nested           *)
(*     stream_generator                            (routers/chat.py)       *)
(*                                                                         *)
(* One action is one atomic block of a request coroutine: the code that    *)
(* runs between two suspension points (await / yield), together with the   *)
(* effect of the Redis command the block ends on.                          *)
(*                                                                         *)
(* Loader call site.  routers/chat.py:61 reads `llm = get_model(found_     *)
(* model_id)`: one argument, no await, while get_model is declared         *)
(* `async def get_model(model_id, app_config)`.  As written the call       *)
(* raises TypeError and the request ends 500 before it touches the stores; *)
(* GetModelRaises keeps that outcome.  The other outcomes follow the body  *)
(* of get_model (model_loader.py:81-119), the loader the handler is meant  *)
(* to enter, so that the loader, the queue and the session store are       *)
(* exercised.  Every behaviour of the code as written is a behaviour of    *)
(* this model.                                                             *)
(***************************************************************************)
EXTENDS Integers, Sequences, FiniteSets, TLC

\* ------------------------------------------------------------------ bounds
NumRequests  == 2       \* requests the service receives
MaxCapacity  == 2       \* an enabled queue has 1..MaxCapacity slots
MaxFragments == 1       \* content fragments one streamed generation accumulates
MaxStale     == 1       \* tokens a previous run may have left in the queue

Reqs       == 1..NumRequests
Capacities == 1..MaxCapacity

\* ----------------------------------------------------- configured models
\* A deployment with three configured models: "Alpha" defines a default
\* system prompt, "beta" does not, the file of "gamma" is missing, the
\* configuration of "delta" has no path.
ModelIds == {"Alpha", "beta", "gamma", "delta"}

\* MODEL_CONFIGS.keys(): the configured ids in the order of the configuration
MODEL_CONFIGS == <<"Alpha", "beta", "gamma", "delta">>

\* what the deployment may set DEFAULT_MODEL_ID to: a model that loads, a model
\* whose file is missing, and that model's id in another spelling
DefaultIds == {"Alpha", "gamma", "GAMMA"}

\* what a client may put in request.model; "" stands for an absent model
RequestedIds == {"", "alpha", "beta", "GAMMA", "delta", "nope"}

\* request.session_id
SessionIds == {"s1"}

Digit == <<"1", "2", "3", "4">>

Msg(role, content) == [role |-> role, content |-> content]

\* model_config.get("system_prompt"): <<>> stands for None
system_prompt(m) == IF m = "Alpha" THEN <<"P">> ELSE <<>>

\* model_config.get("path") is set
HasPath(m) == m # "delta"

\* os.path.exists(model_path) at the startup pre-check
FileExists(m) == m # "gamma"

\* FAILED_MODELS without the startup pre-check
load_models_unchecked == [m \in {} |-> ""]

\* load_models: the ids the pre-check puts into FAILED_MODELS, with the reason
load_models ==
    [m \in {a \in ModelIds : ~HasPath(a) \/ ~FileExists(a)} |->
        IF ~HasPath(m) THEN "missing_path" ELSE "file_not_found"]

\* the requests that submit a system message of their own: every second one
SubmitsSystem(r) == r % 2 = 0

\* request.messages: a user turn, optionally preceded by a system message
Incoming(r, withSystem) ==
    (IF withSystem THEN <<Msg("system", <<"S", Digit[r]>>)>> ELSE <<>>)
        \o <<Msg("user", <<"q", Digit[r]>>)>>

VARIABLES
    phase,                    \* "startup", then "serving", or "no_store" when
                              \* app.state.redis_client is None, or "aborted"
                              \* when lifespan raised
    MAX_CONCURRENT_REQUESTS,  \* app_config.MAX_CONCURRENT_REQUESTS
    DEFAULT_MODEL_ID,         \* app_config.DEFAULT_MODEL_ID
    LLM_INSTANCES,            \* ids with a loaded LocalLLM
    FAILED_MODELS,            \* id -> recorded reason, for the ids that failed
    MODEL_LOCKS,              \* id -> request holding the asyncio.Lock, 0 = free
    lockWaiters,              \* id -> FIFO of requests waiting for the lock
    queue,                    \* length of the Redis list llm_processing_slots
    sessions,                 \* session id -> stored history
    req                       \* request -> its local state

vars == <<phase, MAX_CONCURRENT_REQUESTS, DEFAULT_MODEL_ID, LLM_INSTANCES, FAILED_MODELS,
          MODEL_LOCKS, lockWaiters, queue, sessions, req>>

registry == <<LLM_INSTANCES, FAILED_MODELS, MODEL_LOCKS, lockWaiters>>

\* what no request changes
config == <<phase, MAX_CONCURRENT_REQUESTS, DEFAULT_MODEL_ID>>

\* InitQueue with one push too many
InitQueueOffByOne(n) == IF n > 0 THEN n + 1 ELSE 0

\* InitQueue without the delete of the queue key
InitQueueKeepsStale(n) == queue + (IF n > 0 THEN n ELSE 0)

\* lifespan: delete the queue key, then push max_requests tokens when > 0
InitQueue(n) == IF n > 0 THEN n ELSE 0

\* A request's locals and its response.  pc is the suspension point the
\* coroutine is at; model is model_id (chat.py:35), read until found_model_id is
\* set; saved says that its redis SET of the history was executed; mode is
\* request.stream once the handler read it at chat.py:124 ("sync" or "stream");
\* status and detail are the response's status code and error detail; out is
\* the kinds of the elements stream_generator has yielded; logged says that
\* the handler logged a failed read of the history (chat.py:80), until the
\* request is past the queue.
NoRequest ==
    [pc |-> "idle", model |-> "", found |-> "", session |-> "", history |-> <<>>,
     incoming |-> <<>>, messages |-> <<>>, slot |-> FALSE, content |-> <<>>,
     saved |-> FALSE, status |-> 0, detail |-> <<>>, mode |-> "", out |-> <<>>,
     logged |-> FALSE]

\* the process before lifespan runs, for default model id d and capacity n:
\* the module globals are empty, the Redis list holds what a previous run left
BootingWith(d, n) ==
    /\ phase = "startup"
    /\ MAX_CONCURRENT_REQUESTS = n
    /\ DEFAULT_MODEL_ID = d
    /\ LLM_INSTANCES = {}
    /\ FAILED_MODELS = [m \in {} |-> ""]
    /\ MODEL_LOCKS = [m \in {} |-> 0]
    /\ lockWaiters = [m \in {} |-> <<>>]
    /\ queue \in 0..MaxStale
    /\ sessions = [s \in SessionIds |-> <<>>]
    /\ req = [r \in Reqs |-> NoRequest]

\* the deployment whose default model is "Alpha"
Booting(n) == BootingWith("Alpha", n)

\* the queue is enabled
Init == \E n \in Capacities : Booting(n)

\* the queue is disabled: MAX_CONCURRENT_REQUESTS <= 0
InitDisabled == \E n \in {0, -1} : Booting(n)

\* any capacity, the queue enabled or not
InitAny == \E n \in -1..MaxCapacity : Booting(n)

\* any of the default model ids, one slot
InitDefaults == \E d \in DefaultIds : BootingWith(d, 1)

\* -------------------------------------------------------------- startup
\* main.py:23, model_loader.py:61-79: load_models fills FAILED_MODELS and
\* creates one lock per configured id
LoadModels ==
    /\ FAILED_MODELS' = load_models
    /\ MODEL_LOCKS' = [m \in ModelIds |-> 0]
    /\ lockWaiters' = [m \in ModelIds |-> <<>>]

\* main.py:40-50: the default model id is a key of FAILED_MODELS: lifespan
\* raises RuntimeError before Redis is touched, the application does not start
LifespanAborts ==
    /\ phase = "startup"
    /\ LoadModels
    /\ DEFAULT_MODEL_ID \in DOMAIN FAILED_MODELS'
    /\ phase' = "aborted"
    /\ UNCHANGED <<MAX_CONCURRENT_REQUESTS, DEFAULT_MODEL_ID, LLM_INSTANCES, queue,
                   sessions, req>>

\* Lifespan without the check of the default model
LifespanNoDefaultCheck ==
    /\ phase = "startup"
    /\ LoadModels
    /\ queue' = InitQueue(MAX_CONCURRENT_REQUESTS)
    /\ phase' = "serving"
    /\ UNCHANGED <<MAX_CONCURRENT_REQUESTS, DEFAULT_MODEL_ID, LLM_INSTANCES, sessions, req>>

\* main.py:18-71: startup with Redis reachable: the queue key is deleted and
\* MAX_CONCURRENT_REQUESTS tokens are pushed
Lifespan ==
    /\ phase = "startup"
    /\ LoadModels
    /\ DEFAULT_MODEL_ID \notin DOMAIN FAILED_MODELS'
    /\ queue' = InitQueue(MAX_CONCURRENT_REQUESTS)
    /\ phase' = "serving"
    /\ UNCHANGED <<MAX_CONCURRENT_REQUESTS, DEFAULT_MODEL_ID, LLM_INSTANCES, sessions, req>>

\* main.py:53-71: a Redis command of the startup raised, before or after the
\* delete: redis_client is None
LifespanStoreFails ==
    /\ phase = "startup"
    /\ LoadModels
    /\ DEFAULT_MODEL_ID \notin DOMAIN FAILED_MODELS'
    /\ queue' \in {queue, 0}
    /\ phase' = "no_store"
    /\ UNCHANGED <<MAX_CONCURRENT_REQUESTS, DEFAULT_MODEL_ID, LLM_INSTANCES, sessions, req>>

\* ------------------------------------------------------------ model lookup
\* str.lower() on the ids in use
Lower(id) == CASE id = "Alpha" -> "alpha"
               [] id = "GAMMA" -> "gamma"
               [] OTHER        -> id

\* chat.py:35: model_id = request.model or app_config.DEFAULT_MODEL_ID
ModelId(id) == IF id = "" THEN DEFAULT_MODEL_ID ELSE id

\* FoundModelId comparing the ids as they are spelled
FoundModelIdExact(model_id) ==
    IF model_id \in ModelIds THEN model_id ELSE ""

\* chat.py:40-44: the first configured id whose lower-cased form equals the
\* lower-cased model_id, "" (None) if there is none
FoundModelId(model_id) ==
    LET hits == {i \in 1..Len(MODEL_CONFIGS) : Lower(MODEL_CONFIGS[i]) = Lower(model_id)}
    IN  IF hits = {} THEN ""
        ELSE MODEL_CONFIGS[CHOOSE i \in hits : \A j \in hits : i <= j]

\* the request is over: its locals are gone, the response stays (its status and
\* what it streamed).  slot stays set when the token it holds was not pushed
\* back.
Finished(q, code) ==
    [NoRequest EXCEPT !.pc = "done", !.status = code, !.slot = q.slot, !.mode = q.mode,
                      !.out = q.out]

\* requests are numbered in arrival order
Arrives(r) ==
    /\ phase = "serving"
    /\ req[r].pc = "idle"
    /\ \A p \in Reqs : p < r => req[p].pc # "idle"

\* dependencies.py:47-55: redis_client is None: the dependency raises 503 before
\* the handler body runs
ReceiveNoStore(r) ==
    /\ phase = "no_store"
    /\ req[r].pc = "idle"
    /\ \A p \in Reqs : p < r => req[p].pc # "idle"
    /\ req' = [req EXCEPT ![r] = Finished(NoRequest, 503)]
    /\ UNCHANGED <<config, registry, queue, sessions>>

\* chat.py:46-51: no configured id matches -> 404 listing the configured ids
ReceiveUnknown(r) ==
    /\ Arrives(r)
    /\ \E id \in RequestedIds :
          /\ FoundModelId(ModelId(id)) = ""
          /\ req' = [req EXCEPT ![r] = [Finished(NoRequest, 404) EXCEPT
                                           !.model = ModelId(id),
                                           !.detail = MODEL_CONFIGS]]
    /\ UNCHANGED <<config, registry, queue, sessions>>

\* chat.py:53-59: the id is in FAILED_MODELS -> 500 with the recorded reason
ReceiveFailed(r) ==
    /\ Arrives(r)
    /\ \E id \in RequestedIds :
          LET m == FoundModelId(ModelId(id)) IN
          /\ m \in DOMAIN FAILED_MODELS
          /\ req' = [req EXCEPT ![r] = [Finished(NoRequest, 500) EXCEPT
                                           !.model = ModelId(id), !.found = m,
                                           !.detail = <<FAILED_MODELS[m]>>]]
    /\ UNCHANGED <<config, registry, queue, sessions>>

\* chat.py:47, 55: the id resolved to a configuration that is not a failed one
Resolves(id) ==
    /\ FoundModelId(ModelId(id)) # ""
    /\ FoundModelId(ModelId(id)) \notin DOMAIN FAILED_MODELS

\* the locals once found_model_id is set
Found(id) == [NoRequest EXCEPT !.model = ModelId(id), !.found = FoundModelId(ModelId(id))]

\* chat.py:61 as written: get_model(found_model_id) lacks app_config -> TypeError,
\* the request ends 500
GetModelRaises(r) ==
    /\ Arrives(r)
    /\ \E id \in RequestedIds :
          /\ Resolves(id)
          /\ req' = [req EXCEPT ![r] = [Found(id) EXCEPT !.pc = "done", !.status = 500]]
    /\ UNCHANGED <<config, registry, queue, sessions>>

\* model_loader.py:87-88: fast path, the instance is in LLM_INSTANCES
GetModelCached(r) ==
    /\ Arrives(r)
    /\ \E id \in RequestedIds :
          /\ Resolves(id)
          /\ Found(id).found \in LLM_INSTANCES
          /\ req' = [req EXCEPT ![r] = [Found(id) EXCEPT !.pc = "history"]]
    /\ UNCHANGED <<config, registry, queue, sessions>>

\* model_loader.py:91-115: the lock is free: take it, re-check LLM_INSTANCES,
\* start the constructor in the executor
GetModelLoad(r) ==
    /\ Arrives(r)
    /\ \E id \in RequestedIds :
          LET m == Found(id).found IN
          /\ Resolves(id)
          /\ m \notin LLM_INSTANCES
          /\ MODEL_LOCKS[m] = 0
          /\ MODEL_LOCKS' = [MODEL_LOCKS EXCEPT ![m] = r]
          /\ req' = [req EXCEPT ![r] = [Found(id) EXCEPT !.pc = "constructing"]]
    /\ UNCHANGED <<config, LLM_INSTANCES, FAILED_MODELS, lockWaiters,
                   queue, sessions>>

\* GetModelWait with one lock for all ids
GetModelWaitGlobalLock(r) ==
    /\ Arrives(r)
    /\ \E id \in RequestedIds :
          LET m == Found(id).found IN
          /\ Resolves(id)
          /\ m \notin LLM_INSTANCES
          /\ \E a \in ModelIds : MODEL_LOCKS[a] # 0
          /\ lockWaiters' = [lockWaiters EXCEPT ![m] = Append(@, r)]
          /\ req' = [req EXCEPT ![r] = [Found(id) EXCEPT !.pc = "wait_lock"]]
    /\ UNCHANGED <<config, LLM_INSTANCES, FAILED_MODELS, MODEL_LOCKS,
                   queue, sessions>>

\* model_loader.py:91: the lock is held: wait for it
GetModelWait(r) ==
    /\ Arrives(r)
    /\ \E id \in RequestedIds :
          LET m == Found(id).found IN
          /\ Resolves(id)
          /\ m \notin LLM_INSTANCES
          /\ MODEL_LOCKS[m] # 0
          /\ lockWaiters' = [lockWaiters EXCEPT ![m] = Append(@, r)]
          /\ req' = [req EXCEPT ![r] = [Found(id) EXCEPT !.pc = "wait_lock"]]
    /\ UNCHANGED <<config, LLM_INSTANCES, FAILED_MODELS, MODEL_LOCKS,
                   queue, sessions>>

\* asyncio.Lock.release at the end of `async with`: the lock passes to the
\* first waiter, if any
ReleaseLock(m) ==
    IF lockWaiters[m] = <<>>
    THEN /\ MODEL_LOCKS' = [MODEL_LOCKS EXCEPT ![m] = 0]
         /\ UNCHANGED lockWaiters
    ELSE /\ MODEL_LOCKS' = [MODEL_LOCKS EXCEPT ![m] = Head(lockWaiters[m])]
         /\ lockWaiters' = [lockWaiters EXCEPT ![m] = Tail(@)]

\* model_loader.py:117: LLM_INSTANCES[model_id] = llm_instance
Publish(m) == LLM_INSTANCES \cup {m}

\* model_loader.py:113-119: the constructor returned: publish, leave the lock
ConstructOk(r) ==
    /\ req[r].pc = "constructing"
    /\ LLM_INSTANCES' = Publish(req[r].found)
    /\ ReleaseLock(req[r].found)
    /\ req' = [req EXCEPT ![r].pc = "history"]
    /\ UNCHANGED <<config, FAILED_MODELS, queue, sessions>>

\* model_loader.py:113-115: the constructor raised: `async with` leaves the lock,
\* the exception leaves the handler -> 500.  get_model has no except clause:
\* nothing is written to FAILED_MODELS.
ConstructFail(r) ==
    /\ req[r].pc = "constructing"
    /\ ReleaseLock(req[r].found)
    /\ req' = [req EXCEPT ![r] = Finished(req[r], 500)]
    /\ UNCHANGED <<config, LLM_INSTANCES, FAILED_MODELS, queue, sessions>>

\* model_loader.py:91-94: a waiter got the lock and finds the instance published
LockGrantedCached(r) ==
    /\ req[r].pc = "wait_lock"
    /\ MODEL_LOCKS[req[r].found] = r
    /\ req[r].found \in LLM_INSTANCES
    /\ ReleaseLock(req[r].found)
    /\ req' = [req EXCEPT ![r].pc = "history"]
    /\ UNCHANGED <<config, LLM_INSTANCES, FAILED_MODELS, queue, sessions>>

\* LockGrantedLoad without the second look at LLM_INSTANCES under the lock
LockGrantedLoadNoRecheck(r) ==
    /\ req[r].pc = "wait_lock"
    /\ MODEL_LOCKS[req[r].found] = r
    /\ req' = [req EXCEPT ![r].pc = "constructing"]
    /\ UNCHANGED <<config, registry, queue, sessions>>

\* model_loader.py:91-115: a waiter got the lock and the instance is still absent
LockGrantedLoad(r) ==
    /\ req[r].pc = "wait_lock"
    /\ MODEL_LOCKS[req[r].found] = r
    /\ req[r].found \notin LLM_INSTANCES
    /\ req' = [req EXCEPT ![r].pc = "constructing"]
    /\ UNCHANGED <<config, registry, queue, sessions>>

\* ------------------------------------------------- history and prompt build
\* chat.py:83-101: history + incoming, with the model's default system prompt
\* put in front unless the first message is a system message
BuildMessages(history, incoming, prompt) ==
    LET m == history \o incoming IN
    IF prompt # <<>> /\ ~(m # <<>> /\ m[1].role = "system")
    THEN <<Msg("system", prompt)>> \o m
    ELSE m

\* chat.py:124: request.stream is read: the handler returns the streaming
\* response, its generator not started, or goes on to generate
Dispatch(q, stream) ==
    IF stream THEN [q EXCEPT !.pc = "stream_ready", !.mode = "stream", !.logged = FALSE]
    ELSE [q EXCEPT !.pc = "generate", !.mode = "sync", !.logged = FALSE]

\* AfterHistory with generation started while the slot is awaited
AfterHistoryNoGate(q, stream) == Dispatch(q, stream)

\* chat.py:113: the queue is used only when MAX_CONCURRENT_REQUESTS > 0
AfterHistory(q, stream) ==
    IF MAX_CONCURRENT_REQUESTS > 0 THEN [q EXCEPT !.pc = "acquire"]
    ELSE Dispatch(q, stream)

\* chat.py:84-101: the locals once messages_as_dicts is built from the loaded
\* history and request.messages
Prepared(r, q, withSystem) ==
    [q EXCEPT !.model = "",
              !.incoming = Incoming(r, withSystem),
              !.messages = BuildMessages(q.history, Incoming(r, withSystem),
                                         system_prompt(q.found))]

\* chat.py:74-78, 83-113: redis GET of the session key answered, the messages
\* are built, the queue is reached
LoadHistory(r) ==
    /\ req[r].pc = "history"
    /\ \E sid \in SessionIds, stream \in BOOLEAN :
          req' = [req EXCEPT ![r] =
                     AfterHistory(Prepared(r, [req[r] EXCEPT !.session = sid,
                                                             !.history = sessions[sid]],
                                           SubmitsSystem(r)), stream)]
    /\ UNCHANGED <<config, registry, queue, sessions>>

\* LoadHistoryFails without the try around the read
LoadHistoryFailsRaises(r) ==
    /\ req[r].pc = "history"
    /\ req' = [req EXCEPT ![r] = Finished(req[r], 500)]
    /\ UNCHANGED <<config, registry, queue, sessions>>

\* chat.py:79-81, 83-113: redis GET raised: logged, history = [], then as above
LoadHistoryFails(r) ==
    /\ req[r].pc = "history"
    /\ \E sid \in SessionIds, stream \in BOOLEAN :
          req' = [req EXCEPT ![r] =
                     AfterHistory(Prepared(r, [req[r] EXCEPT !.session = sid,
                                                             !.history = <<>>,
                                                             !.logged = TRUE],
                                           SubmitsSystem(r)), stream)]
    /\ UNCHANGED <<config, registry, queue, sessions>>

\* ------------------------------------------------------------- slot queue
\* redis BLPOP on a non-empty list: one element leaves the list
Blpop(n) == n - 1

\* redis RPUSH of one element
Rpush(n) == n + 1

\* Acquire with a pop that does not wait for an element
AcquireNoWait(r) ==
    /\ req[r].pc = "acquire"
    /\ queue' = IF queue > 0 THEN Blpop(queue) ELSE queue
    /\ \E stream \in BOOLEAN :
          req' = [req EXCEPT ![r] = Dispatch([req[r] EXCEPT !.slot = TRUE], stream)]
    /\ UNCHANGED <<config, registry, sessions>>

\* chat.py:116, 124: BLPOP returned an element: slot is set
Acquire(r) ==
    /\ req[r].pc = "acquire"
    /\ queue > 0
    /\ queue' = Blpop(queue)
    /\ \E stream \in BOOLEAN :
          req' = [req EXCEPT ![r] = Dispatch([req[r] EXCEPT !.slot = TRUE], stream)]
    /\ UNCHANGED <<config, registry, sessions>>

\* AcquireTimeout without the `if slot is None` test
AcquireTimeoutProceeds(r) ==
    /\ req[r].pc = "acquire"
    /\ queue = 0
    /\ \E stream \in BOOLEAN : req' = [req EXCEPT ![r] = Dispatch(req[r], stream)]
    /\ UNCHANGED <<config, registry, queue, sessions>>

\* chat.py:121-122: BLPOP returned None after the timeout on an empty list -> 503
AcquireTimeout(r) ==
    /\ req[r].pc = "acquire"
    /\ queue = 0
    /\ req' = [req EXCEPT ![r] = Finished(req[r], 503)]
    /\ UNCHANGED <<config, registry, queue, sessions>>

\* chat.py:117-119: BLPOP raised -> 503
AcquireError(r) ==
    /\ req[r].pc = "acquire"
    /\ req' = [req EXCEPT ![r] = Finished(req[r], 503)]
    /\ UNCHANGED <<config, registry, queue, sessions>>

\* ReturnSlot without the `if slot:` test
ReturnSlotAlways(q) == Rpush(queue)

\* ReturnSlot pushing in the except block and again in finally
ReturnSlotTwice(q) == IF q.slot THEN Rpush(Rpush(queue)) ELSE queue

\* chat.py:154-155 and 183-184: `if slot:` push a token back
ReturnSlot(q) == IF q.slot THEN Rpush(queue) ELSE queue

\* the request's locals once its finally block ran
Returned(q) == [q EXCEPT !.slot = FALSE]

\* chat.py:148-151: the locals once the except block of stream_generator
\* yielded the error payload: slot is what is still read
Failed(q, pc, code) ==
    [NoRequest EXCEPT !.pc = pc, !.status = code, !.slot = q.slot, !.mode = q.mode,
                      !.out = Append(q.out, "error")]

\* the locals once the history is saved: the prompt and the content are no
\* longer read
Past(q, pc, code) ==
    [NoRequest EXCEPT !.pc = pc, !.status = code, !.slot = q.slot, !.saved = q.saved,
                      !.mode = q.mode, !.out = q.out]

\* ---------------------------------------------------------- non-streaming
\* the text the engine produces for request r, one fragment of it
Fragment(r) == <<"t", Digit[r]>>

\* response["choices"][0]["message"]
Reply(r) == Msg("assistant", Fragment(r))

\* UpdatedHistory appending the turn to the history stored at the time of the save
UpdatedHistoryMerged(q, assistant_message) ==
    sessions[q.session] \o q.incoming \o <<assistant_message>>

\* chat.py:168: updated_history = messages_as_dicts + [assistant_message]
UpdatedHistory(q, assistant_message) == q.messages \o <<assistant_message>>

\* chat.py:162-169: generation returned, redis SET of the updated history done
Generate(r) ==
    /\ req[r].pc = "generate"
    /\ sessions' = [sessions EXCEPT ![req[r].session] = UpdatedHistory(req[r], Reply(r))]
    /\ req' = [req EXCEPT ![r] = [Past(req[r], "release", 200) EXCEPT !.saved = TRUE]]
    /\ UNCHANGED <<config, registry, queue>>

\* GenerateFails with the slot returned on the success path only
GenerateFailsKeepsSlot(r) ==
    /\ req[r].pc = "generate"
    /\ req' = [req EXCEPT ![r] = Finished(req[r], 500)]
    /\ UNCHANGED <<config, registry, queue, sessions>>

\* GenerateFails with the submitted turn written before the engine is called
GenerateFailsPartialWrite(r) ==
    /\ req[r].pc = "generate"
    /\ queue' = ReturnSlot(req[r])
    /\ sessions' = [sessions EXCEPT ![req[r].session] = req[r].messages]
    /\ req' = [req EXCEPT ![r] = Finished(Returned(req[r]), 500)]
    /\ UNCHANGED <<config, registry>>

\* chat.py:162-164, 175-184: generation raised -> 500, finally returns the slot
GenerateFails(r) ==
    /\ req[r].pc = "generate"
    /\ queue' = ReturnSlot(req[r])
    /\ req' = [req EXCEPT ![r] = Finished(Returned(req[r]), 500)]
    /\ UNCHANGED <<config, registry, sessions>>

\* chat.py:169, 175-184: generation returned, redis SET raised -> 500, finally
SaveFails(r) ==
    /\ req[r].pc = "generate"
    /\ queue' = ReturnSlot(req[r])
    /\ req' = [req EXCEPT ![r] = Finished(Returned(req[r]), 500)]
    /\ UNCHANGED <<config, registry, sessions>>

\* chat.py:172-173, 181-184: the response is returned, finally returns the slot
Release(r) ==
    /\ req[r].pc = "release"
    /\ queue' = ReturnSlot(req[r])
    /\ req' = [req EXCEPT ![r] = Finished(Returned(req[r]), req[r].status)]
    /\ UNCHANGED <<config, registry, sessions>>

\* -------------------------------------------------------------- streaming
\* chat.py:127-134: first __anext__ of stream_generator: the engine call returned
\* its iterator, the session-id chunk is yielded
StreamStart(r) ==
    /\ req[r].pc = "stream_ready"
    /\ req' = [req EXCEPT ![r].pc = "streaming", ![r].status = 200,
                          ![r].out = <<"session_id">>]
    /\ UNCHANGED <<config, registry, queue, sessions>>

\* chat.py:128-130, 148-151: the engine call raised: the error payload is yielded
StreamStartFails(r) ==
    /\ req[r].pc = "stream_ready"
    /\ req' = [req EXCEPT ![r] = Failed(req[r], "stream_error", 200)]
    /\ UNCHANGED <<config, registry, queue, sessions>>

\* chat.py:136-140: the engine yields a chunk with content: it is accumulated
\* (a chunk without content leaves full_response_content as it is)
StreamChunk(r) ==
    /\ req[r].pc = "streaming"
    /\ Len(req[r].content) < 2 * MaxFragments
    /\ req' = [req EXCEPT ![r].content = @ \o Fragment(r),
                          ![r].out = Append(@, "chunk")]
    /\ UNCHANGED <<config, registry, queue, sessions>>

\* StreamRaises with the save placed in the except block
StreamRaisesPersists(r) ==
    /\ req[r].pc = "streaming"
    /\ sessions' = IF req[r].content = <<>> THEN sessions
                   ELSE [sessions EXCEPT ![req[r].session] =
                            req[r].messages \o <<Msg("assistant", req[r].content)>>]
    /\ req' = [req EXCEPT ![r] = Failed(req[r], "stream_error", 200)]
    /\ UNCHANGED <<config, registry, queue>>

\* StreamRaises with the loop going on after the error payload
StreamRaisesGoesOn(r) ==
    /\ req[r].pc = "streaming"
    /\ req' = [req EXCEPT ![r].out = Append(@, "error")]
    /\ UNCHANGED <<config, registry, queue, sessions>>

\* chat.py:136, 148-151: the engine raised while iterating: error payload yielded
StreamRaises(r) ==
    /\ req[r].pc = "streaming"
    /\ req' = [req EXCEPT ![r] = Failed(req[r], "stream_error", 200)]
    /\ UNCHANGED <<config, registry, queue, sessions>>

\* chat.py:144: the assistant turn of a stream
StreamReply(q) == Msg("assistant", q.content)

\* StreamEndSave with the token pushed back before the SET
StreamEndSaveReleasesFirst(r) ==
    /\ req[r].pc = "streaming"
    /\ req[r].content # <<>>
    /\ queue' = ReturnSlot(req[r])
    /\ sessions' = [sessions EXCEPT ![req[r].session] =
                        UpdatedHistory(req[r], StreamReply(req[r]))]
    /\ req' = [req EXCEPT ![r] =
                  [Past(Returned(req[r]), "stream_release", 200) EXCEPT !.saved = TRUE]]
    /\ UNCHANGED <<config, registry>>

\* chat.py:143-146: the engine is exhausted with content: redis SET done
StreamEndSave(r) ==
    /\ req[r].pc = "streaming"
    /\ req[r].content # <<>>
    /\ sessions' = [sessions EXCEPT ![req[r].session] =
                        UpdatedHistory(req[r], StreamReply(req[r]))]
    /\ req' = [req EXCEPT ![r] =
                  [Past(req[r], "stream_release", 200) EXCEPT !.saved = TRUE]]
    /\ UNCHANGED <<config, registry, queue>>

\* chat.py:146, 148-151: redis SET raised: error payload yielded
StreamEndSaveFails(r) ==
    /\ req[r].pc = "streaming"
    /\ req[r].content # <<>>
    /\ req' = [req EXCEPT ![r] = Failed(req[r], "stream_error", 200)]
    /\ UNCHANGED <<config, registry, queue, sessions>>

\* chat.py:143, 152-156: the engine is exhausted without content: finally
StreamEndEmpty(r) ==
    /\ req[r].pc = "streaming"
    /\ req[r].content = <<>>
    /\ queue' = ReturnSlot(req[r])
    /\ req' = [req EXCEPT ![r] = Finished(Returned(req[r]), 200)]
    /\ UNCHANGED <<config, registry, sessions>>

\* chat.py:152-156: finally, after the SET returned or when the consumer asks
\* for the element after the error payload
StreamRelease(r) ==
    /\ req[r].pc \in {"stream_release", "stream_error"}
    /\ queue' = ReturnSlot(req[r])
    /\ req' = [req EXCEPT ![r] = Finished(Returned(req[r]), 200)]
    /\ UNCHANGED <<config, registry, sessions>>

\* chat.py:158: the consumer goes away before the first __anext__: the body of
\* stream_generator never starts, so neither does its finally
DisconnectBeforeStart(r) ==
    /\ req[r].pc = "stream_ready"
    /\ req' = [req EXCEPT ![r] = Finished(req[r], 200)]
    /\ UNCHANGED <<config, registry, queue, sessions>>

\* chat.py:134, 140, 151-156: the consumer goes away while the generator is
\* suspended at a yield: closing it raises GeneratorExit there, finally runs
DisconnectAtYield(r) ==
    /\ req[r].pc \in {"streaming", "stream_error"}
    /\ queue' = ReturnSlot(req[r])
    /\ req' = [req EXCEPT ![r] = Finished(Returned(req[r]), 200)]
    /\ UNCHANGED <<config, registry, sessions>>

\* ---------------------------------------------------------- specification
\* the steps of a request outside the slot queue
Serve(r) ==
    \/ ReceiveNoStore(r)
    \/ ReceiveUnknown(r)
    \/ ReceiveFailed(r)
    \/ GetModelRaises(r)
    \/ GetModelCached(r)
    \/ GetModelLoad(r)
    \/ GetModelWait(r)
    \/ ConstructOk(r)
    \/ ConstructFail(r)
    \/ LockGrantedCached(r)
    \/ LockGrantedLoad(r)
    \/ LoadHistory(r)
    \/ LoadHistoryFails(r)
    \/ Generate(r)
    \/ GenerateFails(r)
    \/ SaveFails(r)
    \/ Release(r)
    \/ StreamStart(r)
    \/ StreamStartFails(r)
    \/ StreamChunk(r)
    \/ StreamRaises(r)
    \/ StreamEndSave(r)
    \/ StreamEndSaveFails(r)
    \/ StreamEndEmpty(r)
    \/ StreamRelease(r)
    \/ DisconnectBeforeStart(r)
    \/ DisconnectAtYield(r)

\* chat.py:113-122: the steps taken only when MAX_CONCURRENT_REQUESTS > 0
Gate(r) ==
    \/ Acquire(r)
    \/ AcquireTimeout(r)
    \/ AcquireError(r)

\* main.py:18-71: the startup part of lifespan
Startup == Lifespan \/ LifespanStoreFails

Next == Startup \/ \E r \in Reqs : Serve(r) \/ Gate(r)

NextDisabled == Startup \/ \E r \in Reqs : Serve(r)

\* the service with the queue enabled
Spec == Init /\ [][Next]_vars

\* the service with the queue disabled
SpecDisabled == InitDisabled /\ [][NextDisabled]_vars

\* the service for any capacity
SpecAny == InitAny /\ [][Next]_vars

\* the steps of a deployment whose default model may have failed the pre-check
NextDefaults == LifespanAborts \/ Next

\* the service for any of the default model ids
SpecDefaults == InitDefaults /\ [][NextDefaults]_vars

\* ------------------------------------------------------------------ claims
\* requests holding a token: popped from the queue and not pushed back
Holders == {r \in Reqs : req[r].slot}

\* C1: with the queue enabled, the number of requests that acquired a slot and
\* have not released it never exceeds MAX_CONCURRENT_REQUESTS, whatever the
\* interleaving of streaming and non-streaming requests.
C1_OutstandingAtMostN == Cardinality(Holders) <= MAX_CONCURRENT_REQUESTS

\* two requests hold both slots of a queue of two, one generating, one streaming
C1_Witness ==
    /\ MAX_CONCURRENT_REQUESTS = 2
    /\ \E r1, r2 \in Reqs :
          /\ req[r1].pc = "generate" /\ req[r1].slot
          /\ req[r2].pc = "streaming" /\ req[r2].slot

\* C2: once the queue is initialised it never holds more than
\* MAX_CONCURRENT_REQUESTS tokens; a step of a request that adds tokens adds
\* exactly one, and it is the step in which one request that held a token gives
\* it up: one push per acquire, none without an acquire.
C2_PoolNeverExceedsN ==
    [][/\ phase' = "serving" => queue' <= MAX_CONCURRENT_REQUESTS'
       /\ phase = "serving" /\ queue' > queue =>
             /\ queue' = queue + 1
             /\ \E r \in Reqs :
                   /\ req[r].slot /\ ~req'[r].slot
                   /\ \A p \in Reqs \ {r} : req'[p].slot = req[p].slot]_vars

\* a request that went through the queue is over and the queue is full again
C2_Witness ==
    /\ queue = MAX_CONCURRENT_REQUESTS
    /\ \E r \in Reqs : req[r].pc = "done" /\ req[r].mode # "" /\ ~req[r].slot

\* C3: a non-streaming request that holds a slot keeps it until the step in
\* which it ends, and that step pushes exactly one token, whether generation
\* succeeded, generation raised or the save of the history raised.
C3_SyncReleasedOnce ==
    [][\A r \in Reqs :
          req[r].mode = "sync" /\ req[r].slot =>
             IF req'[r].pc = "done"
             THEN ~req'[r].slot /\ queue' = queue + 1
             ELSE req'[r].slot]_vars

\* a non-streaming request ended 500 after it took a slot, and the slot is back
C3_Witness ==
    \E r \in Reqs :
        /\ req[r].pc = "done" /\ req[r].mode = "sync" /\ req[r].status = 500
        /\ ~req[r].slot
        /\ queue = MAX_CONCURRENT_REQUESTS

\* C4: a streaming request that acquired a slot has released it by the time
\* the request is gone, whenever the consumer stopped reading: no token stays
\* acquired after the request is gone.
C4_StreamSlotReleased ==
    \A r \in Reqs : req[r].mode = "stream" /\ req[r].pc = "done" => ~req[r].slot

\* C5: while MAX_CONCURRENT_REQUESTS requests hold a token, no step gives a
\* token to a further request, and a request waiting for one stays waiting or
\* ends; it does not go on to generation.
C5_FullQueueBlocks ==
    [][\A r \in Reqs :
          Cardinality(Holders) = MAX_CONCURRENT_REQUESTS /\ ~req[r].slot =>
             /\ ~req'[r].slot
             /\ req[r].pc = "acquire" => req'[r].pc \in {"acquire", "done"}]_vars

\* every slot is held and a further request waits for one
C5_Witness ==
    /\ Cardinality(Holders) = MAX_CONCURRENT_REQUESTS
    /\ \E r \in Reqs : req[r].pc = "acquire"

\* C6: with MAX_CONCURRENT_REQUESTS <= 0 no request waits for or holds a token
\* or ends 503, and the queue stays empty, however many requests generate.
C6_DisabledQueueUntouched ==
    phase = "serving" =>
    /\ queue = 0
    /\ \A r \in Reqs : req[r].pc # "acquire" /\ ~req[r].slot /\ req[r].status # 503

\* with the queue disabled, one request is over after generating while another
\* one streams
C6_Witness ==
    /\ MAX_CONCURRENT_REQUESTS <= 0
    /\ \E r1, r2 \in Reqs :
          /\ req[r1].pc = "done" /\ req[r1].mode = "sync" /\ req[r1].status = 200
          /\ req[r2].pc = "streaming"

\* C7: a requester that waited for the lock of a cold model while another one
\* constructed it starts no construction of its own: it leaves the lock with
\* the published handle, or fails on the recorded failure.
C7_OneConstructionPerColdModel ==
    [][\A r \in Reqs :
          req[r].pc = "wait_lock" /\ req'[r].pc # "wait_lock" =>
             \/ req'[r].pc = "history" /\ req[r].found \in LLM_INSTANCES'
             \/ /\ req'[r].pc = "done" /\ req'[r].status = 500
                /\ req[r].found \in DOMAIN FAILED_MODELS']_vars

\* C8: when the constructor raises, the request ends 500 and the model id is
\* in FAILED_MODELS from then on.
C8_FailureRecorded ==
    [][\A r \in Reqs :
          req[r].pc = "constructing" /\ req'[r].pc = "done" =>
             req'[r].status = 500 /\ req[r].found \in DOMAIN FAILED_MODELS']_vars

\* C9: the history a successful non-streaming request stores is the history it
\* loaded, then the submitted messages, then the reply, and no other message,
\* also for a model that defines a default system prompt.
C9_StoredIsHistoryPlusTurn ==
    [][\A r \in Reqs :
          req[r].pc = "generate" /\ req'[r].pc = "release" =>
             sessions'[req[r].session] =
                 req[r].history \o req[r].incoming \o <<Reply(r)>>]_vars

\* C10: the step in which a request fails (404, 500, 503, or the error payload
\* of a stream) leaves the session store as it is, and that request has not
\* written it; the store changes only in the step in which a request whose
\* generation completed saves its history.
C10_FailureLeavesHistory ==
    [][/\ \A r \in Reqs :
             /\ req[r].pc \notin {"done", "stream_error"}
             /\ \/ req'[r].pc = "done" /\ req'[r].status \in {404, 500, 503}
                \/ req'[r].pc = "stream_error"
             => sessions' = sessions /\ ~req[r].saved
       /\ sessions' # sessions =>
             \E r \in Reqs :
                 /\ req[r].pc \in {"generate", "streaming"}
                 /\ req'[r].pc \in {"release", "stream_release"}
                 /\ req'[r].saved /\ req'[r].status = 200]_vars

\* a non-streaming request failed in generation while the session holds the
\* history an earlier request stored
C10_Witness ==
    \E r \in Reqs :
        /\ req[r].pc = "done" /\ req[r].mode = "sync" /\ req[r].status = 500
        /\ sessions["s1"] # <<>>

\* C11 as stated: when a streamed generation fails after content was emitted,
\* the content accumulated so far is stored as one assistant turn after the
\* messages given to the engine.
C11_PartialContentPersisted ==
    [][\A r \in Reqs :
          /\ req[r].pc = "streaming" /\ req[r].content # <<>>
          /\ req'[r].pc = "stream_error"
          => sessions'[req[r].session] =
                 req[r].messages \o <<Msg("assistant", req[r].content)>>]_vars

\* C11 amended: when a streamed generation fails after content was emitted, the
\* content accumulated so far is not stored: the error payload is emitted, the
\* session store is left as it was, and the request ends without writing it.
C11_PartialContentDropped ==
    [][\A r \in Reqs :
          /\ /\ req[r].pc = "streaming" /\ req[r].content # <<>>
             /\ req'[r].pc = "stream_error"
             => sessions' = sessions /\ ~req'[r].saved
          /\ req[r].pc = "stream_error" /\ req'[r] # req[r]
             => sessions' = sessions /\ ~req'[r].saved /\ req'[r].pc = "done"]_vars

\* a stream failed after a content chunk and the session is still empty
C11_Witness ==
    \E r \in Reqs :
        /\ req[r].pc = "stream_error"
        /\ req[r].out = <<"session_id", "chunk", "error">>
        /\ sessions["s1"] = <<>>

\* the configured ids the startup pre-check fails: no path, or no file
FailsPreCheck(m) == m \in ModelIds /\ (~HasPath(m) \/ ~FileExists(m))

\* C12: a model without a path or without its file is in FAILED_MODELS from
\* startup on, and a request resolving to it ends 500 with the recorded reason
\* in the step it arrives: it never enters the loader, loads no history, takes
\* no slot, generates nothing, and leaves the registry, the queue and the
\* sessions as they are.
C12_FailedAtStartupFailsFast ==
    [][/\ phase' # "startup" =>
             \A m \in ModelIds : FailsPreCheck(m) => m \in DOMAIN FAILED_MODELS'
       /\ \A r \in Reqs :
             FailsPreCheck(req'[r].found) =>
                /\ req'[r].pc = "done" /\ req'[r].status = 500
                /\ req'[r].detail = <<FAILED_MODELS[req'[r].found]>>
                /\ ~req'[r].slot /\ req'[r].mode = "" /\ req'[r].out = <<>>
                /\ req[r].pc \in {"idle", "done"}
                /\ req[r].pc = "idle" => UNCHANGED <<registry, queue, sessions>>]_vars

\* one request for the model without file and one for the model without path
\* ended 500, each with its reason
C12_Witness ==
    \E r1, r2 \in Reqs :
        /\ req[r1].found = "gamma" /\ req[r1].detail = <<"file_not_found">>
        /\ req[r2].found = "delta" /\ req[r2].detail = <<"missing_path">>
        /\ req[r1].status = 500 /\ req[r2].status = 500

\* the configured ids equal to id up to case
Matches(id) == {a \in ModelIds : Lower(a) = Lower(id)}

\* C13: an arriving request, with the default id in place of an absent one,
\* resolves to a configured id equal to the requested one up to case, in its
\* configured spelling, when there is one; otherwise it ends 404 with the list
\* of the configured ids and changes neither the sessions, nor the queue, nor
\* the loader's tables.
C13_ModelResolution ==
    [][\A r \in Reqs :
          phase = "serving" /\ req[r].pc = "idle" /\ req'[r].pc # "idle" =>
             /\ req'[r].model # ""
             /\ IF Matches(req'[r].model) # {}
                THEN req'[r].found \in Matches(req'[r].model)
                ELSE /\ req'[r].pc = "done" /\ req'[r].status = 404
                     /\ req'[r].detail = MODEL_CONFIGS
                     /\ ~req'[r].slot
                     /\ UNCHANGED <<registry, queue, sessions>>]_vars

\* one request asked for "alpha" and resolved to "Alpha", one asked for an
\* unknown id and ended 404
C13_Witness ==
    \E r1, r2 \in Reqs :
        /\ req[r1].model = "alpha" /\ req[r1].found = "Alpha"
        /\ req[r2].model = "nope" /\ req[r2].status = 404

\* C14: for a model with a default system prompt P, whatever history the
\* session holds: when the first submitted message is a user message the
\* generation input begins with the system message P; when it is a system
\* message P is not injected, the generation input is the loaded history
\* followed by the submitted messages.
C14_SystemPromptInjection ==
    \A r \in Reqs :
        req[r].messages # <<>> /\ system_prompt(req[r].found) # <<>> =>
            IF req[r].incoming[1].role = "user"
            THEN req[r].messages[1] = Msg("system", system_prompt(req[r].found))
            ELSE req[r].messages = req[r].history \o req[r].incoming

\* C15: with the queue enabled, a request that leaves the BLPOP without a token
\* (timeout on the empty queue, or a Redis error) ends 503 in that step, which
\* changes neither the queue nor the sessions; the ended request takes no
\* further step, so it never generates, pushes a token or writes the history.
C15_AcquireFailureEnds503 ==
    [][\A r \in Reqs :
          /\ req[r].pc = "acquire" /\ req'[r].pc # "acquire" /\ ~req'[r].slot
             => /\ req'[r].pc = "done" /\ req'[r].status = 503
                /\ ~req'[r].saved /\ req'[r].out = <<>>
                /\ UNCHANGED <<queue, sessions>>
          /\ req[r].pc = "done" => req'[r] = req[r]]_vars

\* a request timed out on the empty queue while another one holds the only slot
C15_Witness ==
    /\ phase = "serving" /\ MAX_CONCURRENT_REQUESTS = 1 /\ queue = 0
    /\ \E r1, r2 \in Reqs :
          /\ req[r1].slot /\ req[r1].pc = "generate"
          /\ req[r2].pc = "done" /\ req[r2].status = 503

\* C16: a request whose read of the session history raised is not ended by it:
\* it goes on with an empty history to the queue or to generation, its response
\* carries no error status from that step, and the messages it built are the
\* submitted ones (after the default system prompt, if any).
C16_HistoryReadFailureSwallowed ==
    [][\A r \in Reqs :
          req[r].pc = "history" /\ req'[r].pc # "history" =>
             /\ req'[r].pc \in {"acquire", "generate", "stream_ready"}
             /\ req'[r].status = 0 /\ req'[r].detail = <<>>
             /\ req'[r].logged => req'[r].history = <<>>
             /\ ~req'[r].logged /\ req'[r].pc = "acquire" =>
                    req'[r].history = sessions[req'[r].session]
             /\ req'[r].messages =
                    BuildMessages(req'[r].history, req'[r].incoming,
                                  system_prompt(req[r].found))]_vars

\* the session holds a history, the read of a request on it failed, and the
\* request is at the queue with the submitted messages only
C16_Witness ==
    \E r \in Reqs :
        /\ sessions["s1"] # <<>>
        /\ req[r].pc = "acquire" /\ req[r].session = "s1"
        /\ req[r].logged /\ req[r].history = <<>>
        /\ req[r].found = "beta" /\ req[r].messages = req[r].incoming

\* C17: a request passes its steps in the order of the handler: the model is
\* resolved and loaded before the history is read; the messages are built from
\* the history read, in the step that read it; with the queue enabled the
\* request reaches generation only from the BLPOP, in the step that gives it
\* a token, and with the queue disabled only from the history read; generation
\* starts with the messages built and, when the queue is enabled, the slot held.
C17_OrderOfSteps ==
    [][\A r \in Reqs :
          /\ req'[r].pc \in {"constructing", "wait_lock"} /\ req[r].pc # req'[r].pc
             => req[r].pc \in {"idle", "wait_lock"} /\ req'[r].history = <<>>
          /\ req'[r].pc = "history" /\ req[r].pc # "history"
             => /\ req[r].pc \in {"idle", "constructing", "wait_lock"}
                /\ req'[r].found \in LLM_INSTANCES' /\ req'[r].messages = <<>>
          /\ req'[r].pc = "acquire" /\ req[r].pc # "acquire"
             => /\ req[r].pc = "history" /\ MAX_CONCURRENT_REQUESTS > 0
                /\ ~req'[r].slot
                /\ req'[r].messages =
                       BuildMessages(req'[r].history, req'[r].incoming,
                                     system_prompt(req'[r].found))
          /\ req'[r].pc \in {"generate", "stream_ready"} /\ req[r].pc # req'[r].pc
             => IF MAX_CONCURRENT_REQUESTS > 0
                THEN /\ req[r].pc = "acquire" /\ ~req[r].slot /\ req'[r].slot
                     /\ queue' = queue - 1
                     /\ req'[r].messages = req[r].messages
                ELSE req[r].pc = "history"
          /\ req[r].pc \in {"generate", "stream_ready"} /\ req'[r] # req[r]
             => /\ req[r].messages # <<>> /\ req[r].found \in LLM_INSTANCES
                /\ MAX_CONCURRENT_REQUESTS > 0 => req[r].slot
          /\ req'[r].pc = "streaming" => req[r].pc \in {"stream_ready", "streaming"}]_vars

\* a request that loaded a stored history generates with the slot it acquired
C17_Witness ==
    \E r \in Reqs :
        /\ req[r].pc = "generate" /\ req[r].slot
        /\ req[r].history # <<>> /\ req[r].found \in LLM_INSTANCES
        /\ req[r].messages = BuildMessages(req[r].history, req[r].incoming,
                                           system_prompt(req[r].found))

\* the messages stored in a history
Stored(s) == {sessions[s][i] : i \in 1..Len(sessions[s])}

\* C18: last writer wins.  A save replaces the stored history of the session by
\* the saver's own messages, built from the history it loaded before it waited
\* for a slot, plus its reply, whatever the session holds at the time of the
\* save; the history is not read again once the slot is held.  So two
\* successful requests on one session can leave only the later saver's turn,
\* also with a single slot.
C18_LastWriterWins ==
    [][\A r \in Reqs :
          /\ req[r].pc = "acquire" /\ req'[r].pc # "acquire"
             => req'[r].pc = "done" \/ req'[r].history = req[r].history
          /\ req'[r].saved /\ ~req[r].saved
             => \E reply \in {Reply(r), Msg("assistant", req[r].content)} :
                   sessions'[req[r].session] =
                       BuildMessages(req[r].history, req[r].incoming,
                                     system_prompt(req[r].found)) \o <<reply>>]_vars

\* with one slot, two non-streaming requests on session s1 both succeeded and
\* the session holds the turn of one of them only
C18_Witness ==
    /\ MAX_CONCURRENT_REQUESTS = 1
    /\ \E r1, r2 \in Reqs :
          /\ req[r1].pc = "done" /\ req[r1].status = 200 /\ req[r1].mode = "sync"
          /\ req[r2].pc = "done" /\ req[r2].status = 200 /\ req[r2].mode = "sync"
          /\ Msg("user", <<"q", Digit[r1]>>) \notin Stored("s1")
          /\ Msg("user", <<"q", Digit[r2]>>) \in Stored("s1")

\* C19: the step that completes startup with Redis reachable leaves exactly
\* MAX_CONCURRENT_REQUESTS tokens in the queue when that is positive and none
\* otherwise, whatever a previous run left there.
C19_StartupResetsQueue ==
    [][phase = "startup" /\ phase' = "serving" =>
          queue' = IF MAX_CONCURRENT_REQUESTS > 0 THEN MAX_CONCURRENT_REQUESTS ELSE 0]_vars

\* startup completed for two slots, more than a previous run can have left, and
\* no request has arrived
C19_Witness ==
    /\ phase = "serving" /\ MAX_CONCURRENT_REQUESTS = MaxStale + 1
    /\ queue = MAX_CONCURRENT_REQUESTS
    /\ \A r \in Reqs : req[r].pc = "idle"

\* C20: in every streamed response the first element carries the session id
\* and no later element does, also when the engine fails.
C20_SessionIdFirstAndOnce ==
    \A r \in Reqs :
        req[r].out # <<>> =>
            /\ req[r].out[1] = "session_id"
            /\ \A i \in 2..Len(req[r].out) : req[r].out[i] # "session_id"

\* C21: when the engine fails in a streamed generation, at the call or while it
\* is iterated, the stream gets one error payload: it is the only one, it is
\* the last element, and the slot is still held when it is emitted.  The only
\* step the request takes after it ends the request: it emits nothing and
\* pushes the token back, exactly one.
C21_ErrorChunkLastThenRelease ==
    [][\A r \in Reqs :
          /\ \A i \in 1..Len(req'[r].out) :
                 req'[r].out[i] = "error" => i = Len(req'[r].out)
          /\ req[r].pc \in {"stream_ready", "streaming"} /\ req'[r].pc = "stream_error"
             => /\ req'[r].out = Append(req[r].out, "error")
                /\ req'[r].slot = req[r].slot /\ queue' = queue
          /\ req[r].pc = "stream_error" /\ req'[r] # req[r]
             => /\ req'[r].pc = "done" /\ req'[r].out = req[r].out
                /\ req[r].slot /\ ~req'[r].slot /\ queue' = queue + 1]_vars

\* a stream that failed after a content chunk is over: the error payload is its
\* last element, its token is back and the queue is full
C21_Witness ==
    \E r \in Reqs :
        /\ req[r].pc = "done" /\ req[r].mode = "stream"
        /\ req[r].out = <<"session_id", "chunk", "error">>
        /\ ~req[r].slot /\ queue = MAX_CONCURRENT_REQUESTS

\* the content chunks among the elements of a stream
ContentChunks(out) == {i \in 1..Len(out) : out[i] = "chunk"}

\* the fragments of n content chunks of request r, concatenated
Concatenated(r, n) == [i \in 1..(2 * n) |-> Fragment(r)[((i - 1) % 2) + 1]]

C23_InstanceTableOnlyGrows ==
    [][/\ LLM_INSTANCES \subseteq LLM_INSTANCES'
       /\ \A m \in LLM_INSTANCES' \ LLM_INSTANCES :
              \E r \in Reqs : /\ req[r].pc = "constructing" /\ req[r].found = m
                              /\ req'[r].pc = "history"
       /\ \A r \in Reqs :
              /\ req'[r].pc = "constructing" => req'[r].found \notin LLM_INSTANCES'
              /\ /\ req[r].pc \in {"idle", "wait_lock"}
                 /\ req'[r].pc \notin {req[r].pc, "done"}
                 /\ req'[r].found \in LLM_INSTANCES
                 => req'[r].pc = "history" /\ LLM_INSTANCES' = LLM_INSTANCES
              /\ req'[r].pc \in {"history", "acquire", "generate", "stream_ready",
                                 "streaming"}
                 => req'[r].found \in LLM_INSTANCES']_vars

\* "Alpha" is published and two requests work on it, one of them already
\* generating
C23_Witness ==
    /\ LLM_INSTANCES = {"Alpha"}
    /\ \E r1, r2 \in Reqs :
          /\ r1 # r2
          /\ req[r1].found = "Alpha" /\ req[r1].pc = "generate"
          /\ req[r2].found = "Alpha" /\ req[r2].pc = "history"

\* C24: the loader locks per model id.  A request that constructs holds the
\* lock of its own id, so no two requests construct the same id at the same
\* time.  A request that enters the loader starts its construction when the
\* lock of its id is free, whatever other locks are held; it waits only when
\* the lock of its own id is held, by a request for that id, and a waiting
\* request constructs only once it has the lock.
C24_LockPerModelId ==
    [][\A r \in Reqs :
          /\ req'[r].pc = "constructing" =>
                /\ MODEL_LOCKS'[req'[r].found] = r
                /\ \A p \in Reqs \ {r} :
                       ~(req'[p].pc = "constructing" /\ req'[p].found = req'[r].found)
          /\ req[r].pc = "idle" /\ req'[r].pc = "constructing" =>
                MODEL_LOCKS[req'[r].found] = 0
          /\ req[r].pc = "idle" /\ req'[r].pc = "wait_lock" =>
                \E p \in Reqs \ {r} : /\ MODEL_LOCKS[req'[r].found] = p
                                       /\ req[p].found = req'[r].found
          /\ req[r].pc = "wait_lock" /\ req'[r].pc = "constructing" =>
                MODEL_LOCKS[req[r].found] = r]_vars

\* "Alpha" and "beta" are constructed at the same time, each under its own lock
C24_Witness ==
    \E r1, r2 \in Reqs :
        /\ req[r1].pc = "constructing" /\ req[r1].found = "Alpha"
        /\ req[r2].pc = "constructing" /\ req[r2].found = "beta"
        /\ MODEL_LOCKS["Alpha"] = r1 /\ MODEL_LOCKS["beta"] = r2

\* C25: the step that ends startup aborts it, without touching the queue, when
\* DEFAULT_MODEL_ID is a key of FAILED_MODELS after the pre-check, and no
\* request is received after an abort; whenever the application serves,
\* DEFAULT_MODEL_ID, as it is spelled, is not a key of FAILED_MODELS.
C25_FailedDefaultAbortsStartup ==
    [][/\ phase = "startup" /\ DEFAULT_MODEL_ID \in DOMAIN FAILED_MODELS'
          => phase' = "aborted" /\ queue' = queue
       /\ phase' = "aborted" => \A r \in Reqs : req'[r] = NoRequest
       /\ phase = "aborted" => phase' = "aborted"
       /\ phase' \in {"serving", "no_store"} =>
             DEFAULT_MODEL_ID' \notin DOMAIN FAILED_MODELS']_vars

\* the default model is "gamma", whose file is missing: startup aborted and no
\* request was received
C25_Witness ==
    /\ phase = "aborted" /\ DEFAULT_MODEL_ID = "gamma"
    /\ "gamma" \in DOMAIN FAILED_MODELS
    /\ \A r \in Reqs : req[r].pc = "idle"

====
